---- MODULE Spec2Model ----
(***************************************************************************)
(* The device liveness monitor of lib/yolink-mqtt.js: the message handler, *)
(* the periodic offline sweep, the event log with its per-sensor summary,  *)
(* the hourly timeline and the reading snapshot.                           *)
(*                                                                         *)
(* Time is counted in units of five minutes; every duration of the source  *)
(* is a whole number of units (30 min = 6, 2 h = 24, 10 min = 2).  All     *)
(* clock reads made by one handler return the same instant: a handler is   *)
(* synchronous and lasts far less than one unit.                           *)
(***************************************************************************)
EXTENDS Integers, Sequences, FiniteSets, TLC

\* ---------------------------------------------------------------- constants

\* yolink-mqtt.js:35, 30 minutes
STALE_THRESHOLD_MS == 6
\* yolink-mqtt.js:38, 2 hours
OFFLINE_THRESHOLD_MS == 24
\* yolink-mqtt.js:41, 10 minutes
OFFLINE_CHECK_INTERVAL_MS == 2
\* one hour, the width of a timeline bucket (setMinutes(0, 0, 0))
HourMs == 12
\* yolink-mqtt.js:133 keeps 7 * 24 hours of buckets; the model keeps the pruning
\* rule and a window of RetentionHours, short enough to be outlived
RetentionHours == 2
SevenDaysMs == RetentionHours * HourMs

\* yolink-mqtt.js:147, the 5 minutes (300000 ms) a cached token must still be valid
TokenBufferMs == 1
\* yolink-mqtt.js:168, the 7200 s assumed when the endpoint reports no expires_in
DefaultExpiresIn == 24
\* the endpoint's tokens are told apart by TokenNames names
TokenNames == 3

\* yolink-mqtt.js:44 is 500; the model keeps the trimming rule and a small size
MAX_EVENT_LOG_SIZE == 3

\* Spec: the clock runs on to MaxTime, suspensions take it no further than
\* MaxSuspendedTime, and at most MaxMessages messages are delivered
MaxTime == 9
MaxSuspendedTime == 34
MaxMessages == 2
\* OneDeviceSpec: the same for the longer runs of a single device
MaxLongTime == 38
MaxLongMessages == 2
\* FaultSpec: the same for the runs with failing writes
MaxFaultTime == 12
MaxFaultMessages == 2
\* ReportingSpec: the clock stops at MaxReportingTime
MaxReportingTime == 30
\* ShutdownSpec: the clock stops at MaxShutdownTime
MaxShutdownTime == 4
MaxTokenTime == 40
MaxOutageTime == 68
MaxOutageMessages == 4
\* StatsSpec: a timeline holds at most MaxBuckets buckets
MaxBuckets == 40

\* the topic of a message names a device, or has no third segment
NoDevice == "none"

\* "tank" and "tank3" are the keys of TANK_DEVICES, "hub" a device id that is not
Devices == {"tank", "tank3", "hub"}
TANK_DEVICES == {"tank", "tank3"}

\* a timestamp or number that is absent (null or undefined)
NONE == -1
\* the deviceId of a system event (null)
NullId == "null"

\* obj[key] = value on an object held as a function on its keys
Put(obj, key, value) ==
  [k \in (DOMAIN obj) \cup {key} |-> IF k = key THEN value ELSE obj[k]]

\* What a payload can be:
\*   badjson  JSON.parse throws
\*   null     parses to null: reading data.event throws before anything is updated
\*   depth    an object with data.depth (a water depth reading)
\*   plain    an object that is no reading (no depth, no WaterDepthSensor, no Hub)
\*   hubdown  a Hub report with data.online === false
Payloads == {"badjson", "null", "depth", "plain", "hubdown"}

\* the messages delivered: any payload on a device's topic, and one on a topic
\* without a device id
Messages ==
  (({"tank"} \X (Payloads \ {"hubdown"})) \cup ({"hub"} \X Payloads))
    \cup {<<NoDevice, "plain">>}
\* the readings of the tank sensor alone
TankReadings == {<<"tank", "depth">>}

\* how long the process may be suspended (or the wall clock stepped forward) in one
\* go: long enough for a device heard just before to be past the offline threshold,
\* or long enough for a device that was stale to be past it while one heard just
\* before is only past the stale threshold
Suspensions == {OFFLINE_THRESHOLD_MS - STALE_THRESHOLD_MS - 1, OFFLINE_THRESHOLD_MS + 1}

VARIABLES
  isMainModule,   \* the monitor runs standalone (npm run mqtt), not inside server.js
  now,            \* wall clock
  phase,          \* "idle" before connect(), "running", "failed" (connect returned
                  \* early), "stopped" (shutdown ran), "killed" (the process was
                  \* terminated by a signal nothing handles)
  nextSweepAt,    \* when offlineCheckInterval fires next
  sensorLastSeen, \* deviceId -> timestamp of the last message, NONE if never seen
  sensorOrder,    \* the key order of sensorLastSeen (insertion order)
  sensorStatus,   \* deviceId -> "online" | "stale" | "offline", "unknown" if undefined
  messageCount,
  lastMessageAt,
  eventsFile,     \* sensor-events.json: [events, sensors]
  timelineFile,   \* sensor-timeline.json: deviceId -> (bucket key -> status)
  readingsFile,   \* tank-readings.json: deviceId -> record, on the ids that have one
  last,           \* observation only: the handler that ran last, its input, the
                  \* statuses it found, the events it appended, the writes that worked
  history,        \* observation only: every event logEvent has built, in order
  recorded,       \* observation only: the timeline that updateTimeline has computed,
                  \* update after update, whether or not the writes worked
  served,         \* observation only: the latest response of GET /health, as long as
                  \* no handler that writes a snapshot has run since
  accessToken,    \* the cached token, NONE when null
  tokenExpiry,
  issued,         \* the authentication endpoint: the tokens it has issued, modulo
                  \* TokenNames
  conn,           \* the client: "none" before mqtt.connect, "connecting",
                  \* "subscribing" (connected, subscribe sent), "subscribed",
                  \* "unsubscribed" (connected, subscribe refused), "waiting" (closed,
                  \* reconnect timer armed), "ending" (end() called by the refresh),
                  \* "closed" (end() called by the shutdown), "dropped" (the process
                  \* is gone)
  username,       \* client.options.username
  sent,           \* the username of the CONNECT packet of the latest connect call
  pending,        \* the handlers that await a token: "reconnect", "refresh"
  authSeq,        \* observation only: flips at every credential exchange
  lastAuth        \* observation only: how the last exchange ended

monitor == <<isMainModule, now, phase, nextSweepAt, sensorLastSeen, sensorOrder, sensorStatus,
             messageCount, lastMessageAt, eventsFile, timelineFile, readingsFile,
             last, history, recorded, served>>
session == <<accessToken, tokenExpiry, issued, conn, username, sent, pending, authSeq,
             lastAuth>>
vars == <<monitor, session>>
monitorButLast == <<isMainModule, now, phase, nextSweepAt, sensorLastSeen, sensorOrder,
                    sensorStatus, messageCount, lastMessageAt, eventsFile, timelineFile,
                    readingsFile, history, recorded, served>>

\* ---------------------------------------------------------------- file I/O

\* Which snapshot files can be written while one handler runs.
AllWritable == [timeline |-> TRUE, events |-> TRUE, readings |-> TRUE]
WriteOutcomes == [timeline : BOOLEAN, events : BOOLEAN, readings : BOOLEAN]

\* saveJsonFile: the file becomes data, or stays as it was when the write throws
saveJsonFile(file, data, writable) == IF writable THEN data ELSE file

\* ---------------------------------------------------------------- timeline

getHourBucketKey(t) == t - (t % HourMs)

EmptyBuckets == [k \in {} |-> "unknown"]

\* updateTimeline without the pruning loop
updateTimelineDataUnpruned(tl, t, deviceId, status) ==
  LET old == tl[deviceId]
      bucketKey == getHourBucketKey(t)
  IN [tl EXCEPT ![deviceId] = [k \in (DOMAIN old) \cup {bucketKey} |->
                                 IF k = bucketKey THEN status ELSE old[k]]]

\* updateTimeline on the loaded timeline tl, at time t
updateTimelineData(tl, t, deviceId, status) ==
  LET old == tl[deviceId]
      bucketKey == getHourBucketKey(t)
      written == [k \in (DOMAIN old) \cup {bucketKey} |->
                    IF k = bucketKey THEN status ELSE old[k]]
      sevenDaysAgo == t - SevenDaysMs
      kept == {k \in DOMAIN written : ~(k < sevenDaysAgo)}
  IN [tl EXCEPT ![deviceId] = [k \in kept |-> written[k]]]

updateTimeline(file, t, deviceId, status, w) ==
  saveJsonFile(file, updateTimelineData(file, t, deviceId, status), w.timeline)

\* ---------------------------------------------------------------- event log

EmptyEventLog == [events |-> <<>>, sensors |-> [d \in {} |-> NONE]]

NewSensorSummary(t) ==
  [firstSeen |-> t, totalOfflineEvents |-> 0, totalStaleEvents |-> 0,
   lastOfflineAt |-> NONE, lastStaleAt |-> NONE, lastOnlineAt |-> NONE,
   lastReading |-> NONE, currentStatus |-> "unknown"]

\* a || b on timestamps
OrElse(a, b) == IF a # NONE THEN a ELSE b

\* the details a caller of logEvent passes that the model keeps: none, or the
\* previousState of an online event
NoDetails == [k \in {} |-> NONE]

\* the event logEvent builds, with the outage duration attached to an online event
BuildEvent(log, t, type, deviceId, details) ==
  LET sensor == IF deviceId \in DOMAIN log.sensors
                THEN log.sensors[deviceId] ELSE NewSensorSummary(t)
      downSince == OrElse(sensor.lastOfflineAt, sensor.lastStaleAt)
      duration == IF type = "online" /\ deviceId # NullId /\ downSince # NONE
                  THEN t - downSince ELSE NONE
  IN IF details = NoDetails
     THEN [timestamp |-> t, type |-> type, deviceId |-> deviceId,
           offlineDurationMs |-> duration]
     ELSE [timestamp |-> t, type |-> type, deviceId |-> deviceId,
           offlineDurationMs |-> duration, previousState |-> details.previousState]

\* the per-sensor summary after the event
UpdateSummary(log, t, type, deviceId) ==
  LET sensor == IF deviceId \in DOMAIN log.sensors
                THEN log.sensors[deviceId] ELSE NewSensorSummary(t)
  IN CASE type = "online"  -> [sensor EXCEPT !.lastOnlineAt = t, !.currentStatus = "online"]
       [] type = "offline" -> [sensor EXCEPT !.lastOfflineAt = t,
                                             !.totalOfflineEvents = @ + 1,
                                             !.currentStatus = "offline"]
       [] type = "stale"   -> [sensor EXCEPT !.lastStaleAt = t,
                                             !.totalStaleEvents = @ + 1,
                                             !.currentStatus = "stale"]
       [] type = "reading" -> [sensor EXCEPT !.lastReading = t, !.currentStatus = "online"]
       [] OTHER            -> sensor

\* the trim keeping the head of the list, slice(0, MAX_EVENT_LOG_SIZE)
TrimEventsHead(events) ==
  IF Len(events) > MAX_EVENT_LOG_SIZE
  THEN SubSeq(events, 1, MAX_EVENT_LOG_SIZE)
  ELSE events

\* log.events.slice(-MAX_EVENT_LOG_SIZE) when the list is too long
TrimEvents(events) ==
  IF Len(events) > MAX_EVENT_LOG_SIZE
  THEN SubSeq(events, Len(events) - MAX_EVENT_LOG_SIZE + 1, Len(events))
  ELSE events

\* the log with the summaries cut down to the devices that have an event left in the
\* trimmed list
logEventDataPruningSummaries(log, t, type, deviceId, details) ==
  LET event == BuildEvent(log, t, type, deviceId, details)
      sensors == IF deviceId = NullId THEN log.sensors
                 ELSE Put(log.sensors, deviceId, UpdateSummary(log, t, type, deviceId))
      events == TrimEvents(Append(log.events, event))
      kept == {d \in DOMAIN sensors : \E i \in 1..Len(events) : events[i].deviceId = d}
  IN [events |-> events, sensors |-> [d \in kept |-> sensors[d]]]

\* the log logEvent hands to saveEventLog, trimmed
logEventData(log, t, type, deviceId, details) ==
  LET event == BuildEvent(log, t, type, deviceId, details)
      sensors == IF deviceId = NullId THEN log.sensors
                 ELSE Put(log.sensors, deviceId, UpdateSummary(log, t, type, deviceId))
  IN [events |-> TrimEvents(Append(log.events, event)), sensors |-> sensors]

logEvent(file, t, type, deviceId, details, w) ==
  saveJsonFile(file, logEventData(file, t, type, deviceId, details), w.events)

\* ---------------------------------------------------------------- state

\* no response of GET /health is held
NoResponse == [d \in {} |-> NONE]

Idle == [op |-> "none", dev |-> NoDevice, kind |-> "none",
         prev |-> [d \in Devices |-> "unknown"], added |-> <<>>, w |-> AllWritable,
         returned |-> NONE, ttl |-> NONE]

\* the process starts: nothing in memory, no snapshot file but maybe a timeline
Boot ==
  /\ now = 0
  /\ phase = "idle"
  /\ nextSweepAt = NONE
  /\ sensorLastSeen = [d \in Devices |-> NONE]
  /\ sensorOrder = <<>>
  /\ sensorStatus = [d \in Devices |-> "unknown"]
  /\ messageCount = 0
  /\ lastMessageAt = NONE
  /\ eventsFile = EmptyEventLog
  /\ readingsFile = [d \in {} |-> NONE]
  /\ last = Idle
  /\ history = <<>>
  /\ recorded = [d \in Devices |-> EmptyBuckets]
  /\ served = NoResponse
  /\ accessToken = NONE
  /\ tokenExpiry = 0
  /\ issued = 0
  /\ conn = "none"
  /\ username = NONE
  /\ sent = NONE
  /\ pending = {}
  /\ authSeq = 0
  /\ lastAuth = "none"

\* the first start of the dashboard: server.js calls startMQTT, no snapshot exists
Init ==
  /\ Boot
  /\ isMainModule = FALSE
  /\ timelineFile = [d \in Devices |-> EmptyBuckets]

\* ---------------------------------------------------------------- clock

\* Time passes while the monitor runs; a sweep that is due runs before the clock
\* moves on (setInterval, every OFFLINE_CHECK_INTERVAL_MS).  Before connect() and
\* after a connect() that returned early nothing reads the clock.
Tick ==
  /\ phase = "running"
  /\ now < nextSweepAt
  /\ now' = now + 1
  /\ last' = [Idle EXCEPT !.op = "tick"]
  /\ UNCHANGED <<isMainModule, phase, nextSweepAt, sensorLastSeen, sensorOrder,
                 sensorStatus, messageCount, lastMessageAt, eventsFile, timelineFile,
                 readingsFile, history, recorded, served, session>>

\* The process is suspended, or the wall clock is stepped: Date.now() moves on with
\* no timer having fired; the overdue sweep runs once, after the resume.
Suspend(delta) ==
  /\ phase = "running"
  /\ now < nextSweepAt
  /\ now' = now + delta
  /\ last' = [Idle EXCEPT !.op = "tick"]
  /\ UNCHANGED <<isMainModule, phase, nextSweepAt, sensorLastSeen, sensorOrder,
                 sensorStatus, messageCount, lastMessageAt, eventsFile, timelineFile,
                 readingsFile, history, recorded, served, session>>

\* ---------------------------------------------------------------- connect

\* what the authentication endpoint can answer: a token with a time-to-live, a token
\* without one, or no usable token (an error body, or the request failing)
Responses == {[access_token |-> TRUE, expires_in |-> 12],
              [access_token |-> TRUE, expires_in |-> NONE],
              [access_token |-> FALSE, expires_in |-> NONE]}

\* the token the endpoint issues next; the names repeat after TokenNames tokens
FreshToken == 1 + (issued % TokenNames)

\* getAccessToken from the response on: the token cached with its expiry, or the throw
FetchOutcome(tok, exp, t, resp) ==
  IF resp.access_token
  THEN [threw |-> FALSE, fetched |-> TRUE, token |-> FreshToken,
        accessToken |-> FreshToken,
        tokenExpiry |-> t + (IF resp.expires_in \in {NONE, 0} THEN DefaultExpiresIn
                             ELSE resp.expires_in)]
  ELSE [threw |-> TRUE, fetched |-> TRUE, token |-> NONE,
        accessToken |-> tok, tokenExpiry |-> exp]

\* getAccessToken with the expiry compared as it is, without the 5 minutes
getAccessTokenWithoutBuffer(tok, exp, t, resp) ==
  IF tok # NONE /\ t < exp
  THEN [threw |-> FALSE, fetched |-> FALSE, token |-> tok,
        accessToken |-> tok, tokenExpiry |-> exp]
  ELSE FetchOutcome(tok, exp, t, resp)

\* getAccessToken: the cached token while it is valid for 5 more minutes, else a fetch
getAccessToken(tok, exp, t, resp) ==
  IF tok # NONE /\ t < exp - TokenBufferMs
  THEN [threw |-> FALSE, fetched |-> FALSE, token |-> tok,
        accessToken |-> tok, tokenExpiry |-> exp]
  ELSE FetchOutcome(tok, exp, t, resp)

\* time passes for a caller of getAccessToken
TokenTick ==
  /\ now' = now + 1
  /\ last' = [Idle EXCEPT !.op = "tick"]
  /\ UNCHANGED <<isMainModule, phase, nextSweepAt, sensorLastSeen, sensorOrder,
                 sensorStatus, messageCount, lastMessageAt, eventsFile, timelineFile,
                 readingsFile, history, recorded, served, session>>

\* the bookkeeping of one call of getAccessToken that has returned or thrown
Exchanged(r) ==
  /\ accessToken' = r.accessToken
  /\ tokenExpiry' = r.tokenExpiry
  /\ issued' = IF r.fetched /\ ~r.threw THEN (issued + 1) % TokenNames ELSE issued
  /\ authSeq' = IF r.fetched THEN 1 - authSeq ELSE authSeq
  /\ lastAuth' = IF r.threw THEN "failed" ELSE "ok"

\* one call of getAccessToken, with the answer the endpoint gives if it is asked
CallGetAccessToken(resp) ==
  /\ LET r == getAccessToken(accessToken, tokenExpiry, now, resp)
     IN /\ Exchanged(r)
        /\ last' = [Idle EXCEPT !.op = "token",
                                !.kind = IF r.threw THEN "threw"
                                         ELSE IF r.fetched THEN "fetched" ELSE "cached",
                                !.returned = r.token,
                                !.ttl = IF r.fetched /\ ~r.threw THEN resp.expires_in
                                        ELSE NONE]
  /\ UNCHANGED <<monitorButLast, conn, username, sent, pending>>

\* connect(): the startup event, the initial token, then the client and the timers.
\* Without a token connect returns before the client and the timers exist.
connect(resp, w) ==
  /\ phase = "idle"
  /\ eventsFile' = logEvent(eventsFile, now, "system", NullId, NoDetails, w)
  /\ LET r == getAccessToken(accessToken, tokenExpiry, now, resp)
     IN /\ Exchanged(r)
        /\ phase' = IF r.threw THEN "failed" ELSE "running"
        /\ conn' = IF r.threw THEN conn ELSE "connecting"
        /\ username' = IF r.threw THEN username ELSE r.token
        /\ sent' = IF r.threw THEN sent ELSE r.token
        /\ nextSweepAt' = IF r.threw THEN nextSweepAt
                          ELSE now + OFFLINE_CHECK_INTERVAL_MS
  /\ last' = [Idle EXCEPT !.op = "connect", !.prev = sensorStatus, !.w = w,
                          !.added = <<BuildEvent(eventsFile, now, "system", NullId, NoDetails)>>]
  /\ history' = Append(history, BuildEvent(eventsFile, now, "system", NullId, NoDetails))
  /\ served' = NoResponse
  /\ UNCHANGED <<isMainModule, now, sensorLastSeen, sensorOrder, sensorStatus,
                 messageCount, lastMessageAt, timelineFile, readingsFile, recorded,
                 pending>>

\* ---------------------------------------------------------------- transport

\* a handler of the session ran: nothing of the monitor changes
SessionStep(handler) ==
  /\ last' = [Idle EXCEPT !.op = "session", !.kind = handler]
  /\ UNCHANGED <<isMainModule, now, phase, nextSweepAt, sensorLastSeen, sensorOrder,
                 sensorStatus, messageCount, lastMessageAt, eventsFile, timelineFile,
                 readingsFile, history, recorded, served>>

\* on('connect') without the subscribe: the session counts as subscribed at once
OnConnectWithoutSubscribe ==
  /\ conn = "connecting"
  /\ conn' = "subscribed"
  /\ SessionStep("connect")
  /\ UNCHANGED <<accessToken, tokenExpiry, issued, username, sent, pending, authSeq,
                 lastAuth>>

\* the broker accepts the connection: on('connect') sends the subscribe
OnConnect ==
  /\ conn = "connecting"
  /\ conn' = "subscribing"
  /\ SessionStep("connect")
  /\ UNCHANGED <<accessToken, tokenExpiry, issued, username, sent, pending, authSeq,
                 lastAuth>>

\* the callback of client.subscribe: an error is logged and nothing else
OnSubscribed(ok) ==
  /\ conn = "subscribing"
  /\ conn' = IF ok THEN "subscribed" ELSE "unsubscribed"
  /\ SessionStep(IF ok THEN "subscribed" ELSE "subscribe error")
  /\ UNCHANGED <<accessToken, tokenExpiry, issued, username, sent, pending, authSeq,
                 lastAuth>>

\* the connection is refused or lost: on('close'), the client arms its reconnect
\* timer (reconnectPeriod)
OnClose ==
  /\ conn \in {"connecting", "subscribing", "subscribed", "unsubscribed"}
  /\ conn' = "waiting"
  /\ SessionStep("close")
  /\ UNCHANGED <<accessToken, tokenExpiry, issued, username, sent, pending, authSeq,
                 lastAuth>>

\* the reconnect timer fires: the client emits 'reconnect' and connects with the
\* options as they are; the handler clears the cached token and awaits a fresh one
OnReconnect ==
  /\ conn = "waiting"
  /\ conn' = "connecting"
  /\ accessToken' = NONE
  /\ pending' = pending \cup {"reconnect"}
  /\ authSeq' = 1 - authSeq
  /\ SessionStep("reconnect")
  /\ sent' = username
  /\ UNCHANGED <<tokenExpiry, issued, username, lastAuth>>

\* tokenRefreshInterval fires: the callback clears the cached token and awaits a
\* fresh one
OnTokenRefresh ==
  /\ phase = "running"
  /\ accessToken' = NONE
  /\ pending' = pending \cup {"refresh"}
  /\ authSeq' = 1 - authSeq
  /\ SessionStep("refresh")
  /\ UNCHANGED <<tokenExpiry, issued, conn, username, sent, lastAuth>>

\* the answer handled without client.end(): the refresh installs the token and leaves
\* the connection as it is
OnTokenResponseKeepingConnection(handler, resp) ==
  /\ handler \in pending
  /\ pending' = pending \ {handler}
  /\ LET r == FetchOutcome(accessToken, tokenExpiry, now, resp)
     IN /\ accessToken' = r.accessToken
        /\ tokenExpiry' = r.tokenExpiry
        /\ issued' = IF r.threw THEN issued ELSE (issued + 1) % TokenNames
        /\ lastAuth' = IF r.threw THEN "failed" ELSE "ok"
        /\ username' = IF r.threw THEN username ELSE r.token
        /\ conn' = conn
  /\ SessionStep(IF resp.access_token THEN handler \o " token" ELSE handler \o " failed")
  /\ UNCHANGED <<authSeq, sent>>

\* the answer handled with client.end() outside the try: the refresh ends the
\* connection whether or not it got a token
OnTokenResponseEndingAnyway(handler, resp) ==
  /\ handler \in pending
  /\ pending' = pending \ {handler}
  /\ LET r == FetchOutcome(accessToken, tokenExpiry, now, resp)
     IN /\ accessToken' = r.accessToken
        /\ tokenExpiry' = r.tokenExpiry
        /\ issued' = IF r.threw THEN issued ELSE (issued + 1) % TokenNames
        /\ lastAuth' = IF r.threw THEN "failed" ELSE "ok"
        /\ username' = IF r.threw THEN username ELSE r.token
        /\ conn' = IF handler = "refresh" THEN "ending" ELSE conn
  /\ SessionStep(IF resp.access_token THEN handler \o " token" ELSE handler \o " failed")
  /\ UNCHANGED <<authSeq, sent>>

\* the endpoint answers a handler that awaits: with a token the handler installs it
\* as username, and the refresh ends the connection to reconnect; without one the
\* handler logs the failure
OnTokenResponse(handler, resp) ==
  /\ handler \in pending
  /\ pending' = pending \ {handler}
  /\ LET r == FetchOutcome(accessToken, tokenExpiry, now, resp)
     IN /\ accessToken' = r.accessToken
        /\ tokenExpiry' = r.tokenExpiry
        /\ issued' = IF r.threw THEN issued ELSE (issued + 1) % TokenNames
        /\ lastAuth' = IF r.threw THEN "failed" ELSE "ok"
        /\ username' = IF r.threw THEN username ELSE r.token
        /\ conn' = IF ~r.threw /\ handler = "refresh" THEN "ending" ELSE conn
  /\ SessionStep(IF resp.access_token THEN handler \o " token" ELSE handler \o " failed")
  /\ UNCHANGED <<authSeq, sent>>

\* the callback of client.end(true, {}, cb): client.reconnect(), which emits
\* 'reconnect' as the reconnect timer does, so the handler of 'reconnect' runs
OnEnded ==
  /\ conn = "ending"
  /\ conn' = "connecting"
  /\ accessToken' = NONE
  /\ pending' = pending \cup {"reconnect"}
  /\ authSeq' = 1 - authSeq
  /\ SessionStep("ended")
  /\ sent' = username
  /\ UNCHANGED <<tokenExpiry, issued, username, lastAuth>>

\* ---------------------------------------------------------------- messages

\* the test with the parse outside the try: an undecodable payload goes on
DroppedWithoutId(deviceId, payload) == deviceId = NoDevice

\* JSON.parse or the first reads of the parsed value throw, or the topic has no device
\* id: processMessage leaves through the catch or the early return
Dropped(deviceId, payload) ==
  payload \in {"badjson", "null"} \/ deviceId = NoDevice

\* the condition of the reading block
IsTankReading(deviceId, payload) ==
  deviceId \in TANK_DEVICES \/ payload = "depth"

\* the condition of the hub block that logs
IsHubOffline(payload) == payload = "hubdown"

\* the reading written to tank-readings.json
NewReading(t) == [status |-> "online", statusChangedAt |-> NONE, timestamp |-> t]

\* the state event with an online event logged for every message of a device that
\* was not down, the first included
MessageEventTypeAlwaysOnline(previousStatus, isFirstMessage) == "online"

\* the state event with a stale device not counted as down
MessageEventTypeOfflineOnly(previousStatus, isFirstMessage) ==
  LET wasDown == previousStatus = "offline"
  IN IF wasDown THEN "online" ELSE IF isFirstMessage THEN "startup" ELSE "none"

\* the state event with a reading event logged for every other message
MessageEventTypeReading(previousStatus, isFirstMessage) ==
  LET wasDown == previousStatus = "offline" \/ previousStatus = "stale"
  IN IF wasDown THEN "online" ELSE IF isFirstMessage THEN "startup" ELSE "reading"

\* the state event processMessage logs, NONE when it logs none
MessageEventType(previousStatus, isFirstMessage) ==
  LET wasDown == previousStatus = "offline" \/ previousStatus = "stale"
  IN IF wasDown THEN "online" ELSE IF isFirstMessage THEN "startup" ELSE "none"

processMessage(deviceId, payload, w) ==
  IF Dropped(deviceId, payload)
  THEN /\ last' = [Idle EXCEPT !.op = "message", !.kind = payload, !.prev = sensorStatus,
                               !.w = w]
       /\ UNCHANGED <<sensorLastSeen, sensorOrder, sensorStatus, eventsFile,
                      timelineFile, readingsFile, history, recorded>>
  ELSE
    LET previousStatus == sensorStatus[deviceId]
        isFirstMessage == sensorLastSeen[deviceId] = NONE
        type == MessageEventType(previousStatus, isFirstMessage)
        details == IF type = "online" THEN [previousState |-> previousStatus]
                   ELSE NoDetails
        log1 == IF type = "none" THEN eventsFile
                ELSE logEvent(eventsFile, now, type, deviceId, details, w)
        added1 == IF type = "none" THEN <<>>
                  ELSE <<BuildEvent(eventsFile, now, type, deviceId, details)>>
        log2 == IF IsHubOffline(payload)
                THEN logEvent(log1, now, "hub_offline", deviceId, NoDetails, w)
                ELSE log1
        added2 == IF IsHubOffline(payload)
                  THEN Append(added1,
                              BuildEvent(log1, now, "hub_offline", deviceId, NoDetails))
                  ELSE added1
    IN /\ sensorLastSeen' = [sensorLastSeen EXCEPT ![deviceId] = now]
       /\ sensorOrder' = IF isFirstMessage THEN Append(sensorOrder, deviceId)
                         ELSE sensorOrder
       /\ sensorStatus' = [sensorStatus EXCEPT ![deviceId] = "online"]
       /\ timelineFile' = updateTimeline(timelineFile, now, deviceId, "online", w)
       /\ eventsFile' = log2
       /\ readingsFile' =
            IF IsTankReading(deviceId, payload)
            THEN saveJsonFile(readingsFile,
                              Put(readingsFile, deviceId, NewReading(now)),
                              w.readings)
            ELSE readingsFile
       /\ last' = [Idle EXCEPT !.op = "message", !.dev = deviceId, !.kind = payload,
                               !.prev = sensorStatus, !.added = added2, !.w = w]
       /\ history' = history \o added2
       /\ recorded' = updateTimelineData(recorded, now, deviceId, "online")

\* client.on('message'); the broker delivers to a subscribed session
OnMessage(deviceId, payload, w) ==
  /\ phase = "running"
  /\ conn = "subscribed"
  /\ messageCount' = messageCount + 1
  /\ lastMessageAt' = now
  /\ processMessage(deviceId, payload, w)
  /\ served' = NoResponse
  /\ UNCHANGED <<isMainModule, now, phase, nextSweepAt, session>>

\* ---------------------------------------------------------------- sweep

\* the status and statusChangedAt a sweep writes into an existing reading
MarkReading(readings, t, deviceId, status, w) ==
  IF deviceId \in DOMAIN readings
  THEN saveJsonFile(readings,
                    [readings EXCEPT ![deviceId] =
                       [@ EXCEPT !.status = status, !.statusChangedAt = t]],
                    w.readings)
  ELSE readings

\* the state a sweep puts a device in: with the order of the checks exchanged
SweepStatusStaleFirst(silence, currentStatus) ==
  IF silence > STALE_THRESHOLD_MS /\ currentStatus = "online" THEN "stale"
  ELSE IF silence > OFFLINE_THRESHOLD_MS /\ currentStatus # "offline" THEN "offline"
  ELSE currentStatus

\* the state a sweep puts a device in: with stale tested as "not stale yet"
SweepStatusFlapping(silence, currentStatus) ==
  IF silence > OFFLINE_THRESHOLD_MS /\ currentStatus # "offline" THEN "offline"
  ELSE IF silence > STALE_THRESHOLD_MS /\ currentStatus # "stale" THEN "stale"
  ELSE currentStatus

\* the state a sweep puts a device in: with >= for the stale threshold
SweepStatusStaleAtThreshold(silence, currentStatus) ==
  IF silence > OFFLINE_THRESHOLD_MS /\ currentStatus # "offline" THEN "offline"
  ELSE IF silence >= STALE_THRESHOLD_MS /\ currentStatus = "online" THEN "stale"
  ELSE currentStatus

\* the state a sweep puts a device in: with >= for the offline threshold
SweepStatusAtThreshold(silence, currentStatus) ==
  IF silence >= OFFLINE_THRESHOLD_MS /\ currentStatus # "offline" THEN "offline"
  ELSE IF silence > STALE_THRESHOLD_MS /\ currentStatus = "online" THEN "stale"
  ELSE currentStatus

\* the state a sweep puts a device in: offline is checked first, stale only else
SweepStatus(silence, currentStatus) ==
  IF silence > OFFLINE_THRESHOLD_MS /\ currentStatus # "offline" THEN "offline"
  ELSE IF silence > STALE_THRESHOLD_MS /\ currentStatus = "online" THEN "stale"
  ELSE currentStatus

\* the body of either branch: the status, the event, the reading snapshot
SweepTransition(st, t, deviceId, newStatus, w) ==
  [st EXCEPT !.status = [st.status EXCEPT ![deviceId] = newStatus],
             !.events = logEvent(st.events, t, newStatus, deviceId, NoDetails, w),
             !.readings = MarkReading(st.readings, t, deviceId, newStatus, w),
             !.added = Append(st.added,
                              BuildEvent(st.events, t, newStatus, deviceId, NoDetails))]

\* one iteration with updateTimeline inside the two branches: the bucket is written
\* only for a device the sweep transitions
SweepDeviceTimelineOnTransition(st, t, deviceId, w) ==
  LET timeSinceLastMessage == t - sensorLastSeen[deviceId]
      currentStatus == st.status[deviceId]
      newStatus == SweepStatus(timeSinceLastMessage, currentStatus)
  IN IF newStatus # currentStatus
     THEN [SweepTransition(st, t, deviceId, newStatus, w)
             EXCEPT !.timeline = updateTimeline(st.timeline, t, deviceId, newStatus, w),
                    !.recorded = updateTimelineData(st.recorded, t, deviceId, newStatus)]
     ELSE st

\* one iteration that tests the silence only, not the status the device is in
SweepDeviceRelogging(st, t, deviceId, w) ==
  LET timeSinceLastMessage == t - sensorLastSeen[deviceId]
      newStatus == IF timeSinceLastMessage > OFFLINE_THRESHOLD_MS THEN "offline"
                   ELSE IF timeSinceLastMessage > STALE_THRESHOLD_MS THEN "stale"
                   ELSE st.status[deviceId]
      st1 == IF timeSinceLastMessage > STALE_THRESHOLD_MS
             THEN SweepTransition(st, t, deviceId, newStatus, w) ELSE st
  IN [st1 EXCEPT !.timeline = updateTimeline(st.timeline, t, deviceId, newStatus, w),
                 !.recorded = updateTimelineData(st.recorded, t, deviceId, newStatus)]

\* one iteration with two separate ifs on the status read at the top, not if / else if
SweepDeviceSeparateIfs(st, t, deviceId, w) ==
  LET timeSinceLastMessage == t - sensorLastSeen[deviceId]
      currentStatus == st.status[deviceId]
      st1 == IF timeSinceLastMessage > OFFLINE_THRESHOLD_MS /\ currentStatus # "offline"
             THEN SweepTransition(st, t, deviceId, "offline", w) ELSE st
      st2 == IF timeSinceLastMessage > STALE_THRESHOLD_MS /\ currentStatus = "online"
             THEN SweepTransition(st1, t, deviceId, "stale", w) ELSE st1
  IN [st2 EXCEPT !.timeline = updateTimeline(st.timeline, t, deviceId,
                                             st2.status[deviceId], w),
                 !.recorded = updateTimelineData(st.recorded, t, deviceId,
                                                 st2.status[deviceId])]

\* one iteration of the loop of checkForOfflineSensors; st carries the maps and files
SweepDevice(st, t, deviceId, w) ==
  LET timeSinceLastMessage == t - sensorLastSeen[deviceId]
      currentStatus == st.status[deviceId]
      newStatus == SweepStatus(timeSinceLastMessage, currentStatus)
      st1 == IF newStatus # currentStatus
             THEN SweepTransition(st, t, deviceId, newStatus, w) ELSE st
  IN [st1 EXCEPT !.timeline = updateTimeline(st.timeline, t, deviceId, newStatus, w),
                 !.recorded = updateTimelineData(st.recorded, t, deviceId, newStatus)]

\* the loop with every iteration working on the event log and the timeline as they
\* were when the sweep began, and writing its own copy back
RECURSIVE SweepFromSharedSnapshot(_, _, _, _)
SweepFromSharedSnapshot(i, st, t, w) ==
  IF i > Len(sensorOrder) THEN st
  ELSE SweepFromSharedSnapshot(
         i + 1,
         SweepDevice([st EXCEPT !.events = eventsFile, !.timeline = timelineFile],
                     t, sensorOrder[i], w),
         t, w)

RECURSIVE SweepFrom(_, _, _, _)
SweepFrom(i, st, t, w) ==
  IF i > Len(sensorOrder) THEN st
  ELSE SweepFrom(i + 1, SweepDevice(st, t, sensorOrder[i], w), t, w)

\* checkForOfflineSensors, fired by offlineCheckInterval
checkForOfflineSensors(w) ==
  /\ phase = "running"
  /\ now >= nextSweepAt
  /\ LET st == SweepFrom(1, [status |-> sensorStatus, events |-> eventsFile,
                             readings |-> readingsFile, timeline |-> timelineFile,
                             added |-> <<>>, recorded |-> recorded], now, w)
     IN /\ sensorStatus' = st.status
        /\ eventsFile' = st.events
        /\ readingsFile' = st.readings
        /\ timelineFile' = st.timeline
        /\ last' = [Idle EXCEPT !.op = "sweep", !.prev = sensorStatus, !.w = w,
                                !.added = st.added]
        /\ history' = history \o st.added
        /\ recorded' = st.recorded
  /\ served' = NoResponse
  /\ nextSweepAt' = now + OFFLINE_CHECK_INTERVAL_MS
  /\ UNCHANGED <<isMainModule, now, phase, sensorLastSeen, sensorOrder, messageCount,
                 lastMessageAt, session>>

\* ---------------------------------------------------------------- shutdown

Signals == {"SIGINT", "SIGTERM"}

\* SIGINT or SIGTERM reaches the process after connect() has started the monitor.
\* Standalone, connect() has registered shutdown for both signals: the system event,
\* the three clearInterval, client.end() and process.exit(0).  Inside server.js
\* nothing is registered for either signal and the process is terminated as it is.
Shutdown(signal, w) ==
  /\ phase = "running"
  /\ IF isMainModule
     THEN /\ eventsFile' = logEvent(eventsFile, now, "system", NullId, NoDetails, w)
          /\ last' = [Idle EXCEPT !.op = "shutdown", !.kind = signal,
                                  !.prev = sensorStatus, !.w = w,
                                  !.added = <<BuildEvent(eventsFile, now, "system", NullId, NoDetails)>>]
          /\ history' = Append(history, BuildEvent(eventsFile, now, "system", NullId, NoDetails))
          /\ phase' = "stopped"
          /\ conn' = "closed"
     ELSE /\ last' = [Idle EXCEPT !.op = "shutdown", !.kind = signal,
                                  !.prev = sensorStatus, !.w = w]
          /\ phase' = "killed"
          /\ conn' = "dropped"
          /\ UNCHANGED <<eventsFile, history>>
  /\ pending' = {}
  /\ served' = NoResponse
  /\ UNCHANGED <<isMainModule, now, nextSweepAt, sensorLastSeen, sensorOrder,
                 sensorStatus, messageCount, lastMessageAt, timelineFile, readingsFile,
                 recorded, accessToken, tokenExpiry, issued, username, sent, authSeq,
                 lastAuth>>

\* ---------------------------------------------------------------- health route

\* Math.floor in the place of Math.round
RoundedQuotientDown(num, den) == num \div den

\* Math.round(x) of the quotient num / den, den > 0: the nearest integer, halves up
RoundedQuotient(num, den) == (2 * num + den) \div (2 * den)

RECURSIVE SumOf(_)
SumOf(seq) == IF seq = <<>> THEN 0 ELSE seq[1] + SumOf(Tail(seq))

RECURSIVE MaxOf(_)
MaxOf(seq) ==
  IF Len(seq) = 1 THEN seq[1]
  ELSE LET m == MaxOf(Tail(seq)) IN IF seq[1] > m THEN seq[1] ELSE m

\* events.filter(e => e.deviceId === deviceId && e.type === type)
EventsOfType(events, deviceId, type) ==
  SelectSeq(events, LAMBDA e : e.deviceId = deviceId /\ e.type = type)

\* calculateStats counting the buckets of the last seven days at the time of the call
calculateStatsSinceNow(timeline, events, deviceId) ==
  LET recent == {k \in DOMAIN timeline : k >= now - SevenDaysMs}
      totalBuckets == Cardinality(recent)
      onlineBuckets == Cardinality({k \in recent : timeline[k] = "online"})
  IN [uptimePercent |-> IF totalBuckets > 0
                        THEN RoundedQuotient(onlineBuckets * 1000, totalBuckets)
                        ELSE NONE,
      totalOfflineEvents |-> Len(EventsOfType(events, deviceId, "offline")),
      totalStaleEvents |-> Len(EventsOfType(events, deviceId, "stale")),
      longestOutageMs |-> 0,
      avgOutageMs |-> [sum |-> 0, count |-> 1],
      totalBuckets |-> totalBuckets,
      onlineBuckets |-> onlineBuckets]

\* calculateStats: uptimePercent in tenths of a percent, NONE for null; avgOutageMs
\* is the quotient sum / count, held as the two numbers
calculateStats(timeline, events, deviceId) ==
  LET totalBuckets == Cardinality(DOMAIN timeline)
      onlineBuckets == Cardinality({k \in DOMAIN timeline : timeline[k] = "online"})
      recoveryEvents ==
        SelectSeq(EventsOfType(events, deviceId, "online"),
                  LAMBDA e : e.offlineDurationMs # NONE /\ e.offlineDurationMs # 0)
      durations == [i \in 1..Len(recoveryEvents) |-> recoveryEvents[i].offlineDurationMs]
  IN [uptimePercent |-> IF totalBuckets > 0
                        THEN RoundedQuotient(onlineBuckets * 1000, totalBuckets)
                        ELSE NONE,
      totalOfflineEvents |-> Len(EventsOfType(events, deviceId, "offline")),
      totalStaleEvents |-> Len(EventsOfType(events, deviceId, "stale")),
      longestOutageMs |-> IF Len(durations) > 0 THEN MaxOf(durations) ELSE 0,
      avgOutageMs |-> IF Len(durations) > 0
                      THEN [sum |-> SumOf(durations), count |-> Len(durations)]
                      ELSE [sum |-> 0, count |-> 1],
      totalBuckets |-> totalBuckets,
      onlineBuckets |-> onlineBuckets]

\* the entry of one tank with 0 percent, not null, for a tank without buckets
HealthOfZeroUptime(readings, sensorEvents, timeline, deviceId) ==
  LET stats == calculateStats(timeline[deviceId], sensorEvents.events, deviceId)
  IN [currentStatus |-> "unknown", lastUpdate |-> NONE, timeline |-> timeline[deviceId],
      stats |-> [stats EXCEPT !.uptimePercent = IF @ = NONE THEN 0 ELSE @]]

\* the entry of one tank in the response of GET /health
HealthOf(readings, sensorEvents, timeline, deviceId) ==
  LET hasReading == deviceId \in DOMAIN readings
      hasSummary == deviceId \in DOMAIN sensorEvents.sensors
  IN [currentStatus |-> IF hasSummary THEN sensorEvents.sensors[deviceId].currentStatus
                        ELSE IF hasReading THEN readings[deviceId].status
                        ELSE "unknown",
      lastUpdate |-> IF hasReading THEN readings[deviceId].timestamp
                     ELSE IF hasSummary THEN sensorEvents.sensors[deviceId].lastReading
                     ELSE NONE,
      timeline |-> timeline[deviceId],
      stats |-> calculateStats(timeline[deviceId], sensorEvents.events, deviceId)]

\* the response of GET /health: an entry for each known tank
HealthResponse(readings, sensorEvents, timeline) ==
  [d \in TANK_DEVICES |-> HealthOf(readings, sensorEvents, timeline, d)]

\* GET /health, a route of server.js: the three snapshots are read and the response
\* is sent
GetHealth ==
  /\ ~isMainModule
  /\ phase # "killed"
  /\ last' = [Idle EXCEPT !.op = "health"]
  /\ served' = HealthResponse(readingsFile, eventsFile, timelineFile)
  /\ UNCHANGED <<isMainModule, now, phase, nextSweepAt, sensorLastSeen, sensorOrder,
                 sensorStatus, messageCount, lastMessageAt, eventsFile, timelineFile,
                 readingsFile, history, recorded, session>>

\* ---------------------------------------------------------------- specification

\* the endpoint answers with a token, or without one
TokenOk == [access_token |-> TRUE, expires_in |-> NONE]
NoToken == [access_token |-> FALSE, expires_in |-> NONE]

\* The monitor of two devices, with a file system that takes every write: the first
\* hour of operation, and what the sweep finds after the process was suspended.
Next ==
  \/ now < MaxTime /\ Tick
  \/ \E delta \in Suspensions : now + delta <= MaxSuspendedTime /\ Suspend(delta)
  \/ \E resp \in {TokenOk, NoToken} : connect(resp, AllWritable)
  \/ OnConnect
  \/ \E ok \in BOOLEAN : OnSubscribed(ok)
  \/ \E m \in Messages :
       messageCount < MaxMessages /\ OnMessage(m[1], m[2], AllWritable)
  \/ checkForOfflineSensors(AllWritable)

Spec == Init /\ [][Next]_vars

\* The monitor of the tank sensor alone, over a longer time.
NextOneDevice ==
  \/ now < MaxLongTime /\ Tick
  \/ connect(TokenOk, AllWritable)
  \/ OnConnect
  \/ OnSubscribed(TRUE)
  \/ \E m \in TankReadings :
       messageCount < MaxLongMessages /\ OnMessage(m[1], m[2], AllWritable)
  \/ checkForOfflineSensors(AllWritable)
  \/ GetHealth

OneDeviceSpec == Init /\ [][NextOneDevice]_vars

\* The monitor of the tank sensor with a file system that may refuse any write, into
\* the second hour.
NextFault ==
  \/ now < MaxFaultTime /\ Tick
  \/ \E w \in WriteOutcomes : connect(TokenOk, w)
  \/ OnConnect
  \/ OnSubscribed(TRUE)
  \/ \E m \in TankReadings, w \in WriteOutcomes :
       messageCount < MaxFaultMessages /\ OnMessage(m[1], m[2], w)
  \/ \E w \in WriteOutcomes : checkForOfflineSensors(w)

FaultSpec == Init /\ [][NextFault]_vars

\* The dashboard with one tank that reports every five minutes from the first five
\* minutes on, the other devices silent: the clock moves on once the report of the
\* instant has been handled.
NextReporting ==
  \/ now < MaxReportingTime /\ sensorLastSeen["tank"] = now /\ Tick
  \/ connect(TokenOk, AllWritable)
  \/ OnConnect
  \/ OnSubscribed(TRUE)
  \/ \E m \in TankReadings :
       sensorLastSeen["tank"] < now /\ OnMessage(m[1], m[2], AllWritable)
  \/ checkForOfflineSensors(AllWritable)
  \/ GetHealth

ReportingSpec == Init /\ [][NextReporting]_vars

\* the timeline of a device with total buckets, the first online of them online: the
\* buckets of the latest hours, the others stale, offline or unknown in turn
BucketMap(total, online) ==
  [k \in {-(i - 1) * HourMs : i \in 1..total} |->
     IF -k < online * HourMs THEN "online"
     ELSE <<"stale", "offline", "unknown">>[1 + ((-k \div HourMs) % 3)]]

\* the dashboard starts on a timeline that an earlier run has left
StatsInit ==
  /\ Boot
  /\ isMainModule = FALSE
  /\ \E total \in 0..MaxBuckets : \E online \in 0..total :
       timelineFile = [d \in Devices |-> IF d = "tank" THEN BucketMap(total, online)
                                          ELSE EmptyBuckets]

\* The uptime statistics of the timelines an earlier run can have left.
NextStats == GetHealth

StatsSpec == StatsInit /\ [][NextStats]_vars

\* either start of the monitor: standalone or inside server.js
ShutdownInit ==
  /\ Boot
  /\ isMainModule \in BOOLEAN
  /\ timelineFile = [d \in Devices |-> EmptyBuckets]

\* The first sweeps of the monitor of the tank sensor, and the signal that ends it.
NextShutdown ==
  \/ now < MaxShutdownTime /\ Tick
  \/ connect(TokenOk, AllWritable)
  \/ OnConnect
  \/ OnSubscribed(TRUE)
  \/ \E m \in TankReadings :
       messageCount < MaxMessages /\ OnMessage(m[1], m[2], AllWritable)
  \/ checkForOfflineSensors(AllWritable)
  \/ OnTokenRefresh
  \/ \E h \in {"reconnect", "refresh"} : OnTokenResponse(h, TokenOk)
  \/ OnEnded
  \/ \E signal \in Signals : Shutdown(signal, AllWritable)

ShutdownSpec == ShutdownInit /\ [][NextShutdown]_vars

\* The session: the credential exchanges and the connection.  The timers fire, the
\* endpoint answers or the request fails, and the client's callbacks run.
NextSession ==
  \/ \E resp \in Responses : connect(resp, AllWritable)
  \/ OnConnect
  \/ \E ok \in BOOLEAN : OnSubscribed(ok)
  \/ OnClose
  \/ OnReconnect
  \/ OnTokenRefresh
  \/ \E h \in {"reconnect", "refresh"}, resp \in Responses : OnTokenResponse(h, resp)
  \/ OnEnded

SessionSpec ==
  /\ Init
  /\ [][NextSession]_vars
  /\ WF_vars(OnReconnect)
  /\ WF_vars(OnTokenRefresh)
  /\ WF_vars(\E h \in {"reconnect", "refresh"}, resp \in Responses : OnTokenResponse(h, resp))
  /\ WF_vars(OnEnded)

\* One tank over several outages: the clock moves in the steps of Suspensions, long
\* enough for the tank to go stale, offline and back more than once.
NextOutage ==
  \/ \E delta \in Suspensions : now + delta <= MaxOutageTime /\ Suspend(delta)
  \/ connect(TokenOk, AllWritable)
  \/ OnConnect
  \/ OnSubscribed(TRUE)
  \/ \E m \in TankReadings :
       messageCount < MaxOutageMessages /\ OnMessage(m[1], m[2], AllWritable)
  \/ checkForOfflineSensors(AllWritable)

OutageSpec == Init /\ [][NextOutage]_vars

\* getAccessToken called again and again while time passes, from the empty cache
NextToken ==
  \/ now < MaxTokenTime /\ TokenTick
  \/ \E resp \in Responses : CallGetAccessToken(resp)

TokenSpec == Init /\ [][NextToken]_vars

\* ---------------------------------------------------------------- properties

LivenessStates == {"unknown", "online", "stale", "offline"}

\* the last n elements of a sequence
LastN(seq, n) == IF Len(seq) > n THEN SubSeq(seq, Len(seq) - n + 1, Len(seq)) ELSE seq

\* the positions in a list of events of the events of one device
EventsOf(events, deviceId) == {i \in 1..Len(events) : events[i].deviceId = deviceId}

\* the positions before i in the history of the offline and stale events of the
\* device of the event at i
DownBefore(i) ==
  {j \in 1..(i - 1) : /\ history[j].deviceId = history[i].deviceId
                      /\ history[j].type \in {"offline", "stale"}}

Max(S) == CHOOSE x \in S : \A y \in S : y <= x

\* when the device was last put offline, by the history
OfflineSince(deviceId) ==
  history[Max({j \in 1..Len(history) : /\ history[j].deviceId = deviceId
                                       /\ history[j].type = "offline"})].timestamp

\* the step is the handling of a message that was not dropped, for deviceId
MessageFor(deviceId) == last'.op = "message" /\ last'.dev = deviceId

\* C1: with the stale threshold below the offline threshold, a device whose silence
\* exceeds the offline threshold at a sweep is offline after that sweep and the sweep
\* logs no stale event for it, whatever its state before; and no step takes a device
\* from offline to stale.
C1_OfflineCheckedFirst ==
  [][ /\ STALE_THRESHOLD_MS < OFFLINE_THRESHOLD_MS
      /\ last'.op = "sweep" =>
           \A d \in Devices :
             (sensorLastSeen[d] # NONE /\ now - sensorLastSeen[d] > OFFLINE_THRESHOLD_MS)
               => /\ sensorStatus'[d] = "offline"
                  /\ \A i \in EventsOf(last'.added, d) : last'.added[i].type # "stale"
      /\ \A d \in Devices : sensorStatus[d] = "offline" => sensorStatus'[d] # "stale"
    ]_vars

\* a sweep has just found an online device silent beyond the offline threshold and
\* has put it offline
C1_Witness ==
  /\ last.op = "sweep"
  /\ \E d \in Devices : /\ last.prev[d] = "online"
                        /\ sensorStatus[d] = "offline"
                        /\ now - sensorLastSeen[d] > OFFLINE_THRESHOLD_MS

\* C2: every online event records as outage duration its timestamp minus the
\* timestamp of the latest earlier offline or stale event of its device, and no
\* duration when there is no such event.
C2_OutageDuration ==
  \A i \in 1..Len(history) :
    history[i].type = "online" =>
      history[i].offlineDurationMs =
        IF DownBefore(i) = {} THEN NONE
        ELSE history[i].timestamp - history[Max(DownBefore(i))].timestamp

\* C3: the persisted event list is the most recent min(n, MAX_EVENT_LOG_SIZE) of the
\* n events appended so far, in append order.
C3_FifoTrim ==
  /\ Len(eventsFile.events) <= MAX_EVENT_LOG_SIZE
  /\ eventsFile.events = LastN(history, MAX_EVENT_LOG_SIZE)

\* more events were appended than the list holds, the last two in one sweep
C3_Witness ==
  /\ Len(history) > MAX_EVENT_LOG_SIZE + 1
  /\ Len(eventsFile.events) = MAX_EVENT_LOG_SIZE
  /\ last.op = "sweep"
  /\ Len(last.added) = 2

\* C4: the first message of a device takes it from unknown to online and appends a
\* startup event; a sweep puts a device that is not offline into offline exactly when
\* its silence exceeds the offline threshold; a message for an offline device takes
\* it to online and appends an online event whose outage duration is the time of the
\* message minus the time of the offline transition.
C4_EndToEnd ==
  [][ \A d \in Devices :
        /\ (MessageFor(d) /\ sensorLastSeen[d] = NONE)
             => /\ sensorStatus[d] = "unknown"
                /\ sensorStatus'[d] = "online"
                /\ last'.added = <<[timestamp |-> now, type |-> "startup",
                                    deviceId |-> d, offlineDurationMs |-> NONE]>>
        /\ (last'.op = "sweep" /\ sensorLastSeen[d] # NONE /\ sensorStatus[d] # "offline")
             => (sensorStatus'[d] = "offline"
                   <=> now - sensorLastSeen[d] > OFFLINE_THRESHOLD_MS)
        /\ (MessageFor(d) /\ sensorStatus[d] = "offline")
             => /\ sensorStatus'[d] = "online"
                /\ last'.added = <<[timestamp |-> now, type |-> "online",
                                    deviceId |-> d,
                                    offlineDurationMs |-> now - OfflineSince(d),
                                    previousState |-> "offline"]>>
    ]_vars

\* the scenario with T0 = 0: startup at T0, sweeps every 10 minutes, stale at the
\* sweep of T0 + 40 min, offline at the sweep of T0 + 2 h 10 min (the first with a
\* silence above 2 h), a message at T0 + 3 h 05 min, 55 minutes of outage recorded
C4_Witness ==
  /\ last.op = "message"
  /\ now = 37
  /\ history = <<[timestamp |-> 0, type |-> "system", deviceId |-> NullId,
                  offlineDurationMs |-> NONE],
                 [timestamp |-> 0, type |-> "startup", deviceId |-> "tank",
                  offlineDurationMs |-> NONE],
                 [timestamp |-> 8, type |-> "stale", deviceId |-> "tank",
                  offlineDurationMs |-> NONE],
                 [timestamp |-> 26, type |-> "offline", deviceId |-> "tank",
                  offlineDurationMs |-> NONE],
                 [timestamp |-> 37, type |-> "online", deviceId |-> "tank",
                  offlineDurationMs |-> 11, previousState |-> "offline"]>>

\* the devices whose timeline the last handler updated, with the status it wrote
Updated ==
  IF last.op = "message" /\ last.dev # NoDevice THEN {last.dev}
  ELSE IF last.op = "sweep" THEN {d \in Devices : sensorLastSeen[d] # NONE}
  ELSE {}

\* C5: right after a timeline update for a device at time now, the device has no
\* bucket older than now minus the retention window, and has the bucket of the hour
\* of now holding the status just written.
C5_TimelineWindow ==
  \A d \in Updated :
    /\ \A k \in DOMAIN timelineFile[d] : k >= now - SevenDaysMs
    /\ getHourBucketKey(now) \in DOMAIN timelineFile[d]
    /\ timelineFile[d][getHourBucketKey(now)] = sensorStatus[d]

\* an update has pruned the bucket of the hour the device was first heard in, while
\* a bucket exactly as old as the window is kept
C5_Witness ==
  /\ "tank" \in Updated
  /\ "tank" \in DOMAIN eventsFile.sensors
  /\ getHourBucketKey(eventsFile.sensors["tank"].firstSeen) \notin DOMAIN timelineFile["tank"]
  /\ now - SevenDaysMs \in DOMAIN timelineFile["tank"]

\* C6: a liveness state is unknown (never seen), online, stale or offline; a sweep
\* changes the state of a device at most once: it logs at most one event per device,
\* one exactly when the state differs after the sweep, of the type of the new state.
C6_OneChangePerSweep ==
  /\ \A d \in Devices : sensorStatus[d] \in LivenessStates
  /\ [][ /\ \A d \in Devices :
              /\ sensorStatus'[d] \in LivenessStates
              /\ sensorStatus'[d] = "unknown" <=> sensorLastSeen'[d] = NONE
         /\ last'.op = "sweep" =>
              \A d \in Devices :
                /\ Cardinality(EventsOf(last'.added, d)) <= 1
                /\ EventsOf(last'.added, d) # {} <=> sensorStatus'[d] # sensorStatus[d]
                /\ \A i \in EventsOf(last'.added, d) :
                     last'.added[i].type = sensorStatus'[d]
       ]_vars

\* one sweep has changed the state of both devices, one to stale and one to offline
C6_Witness ==
  /\ last.op = "sweep"
  /\ \E d, e \in Devices :
       /\ last.prev[d] = "online" /\ sensorStatus[d] = "stale"
       /\ last.prev[e] = "stale" /\ sensorStatus[e] = "offline"

\* what a dropped message leaves alone
LivenessUnchanged ==
  UNCHANGED <<sensorLastSeen, sensorOrder, sensorStatus, eventsFile, timelineFile,
              readingsFile, phase>>

\* C7 as stated: a message that cannot be decoded, or that decodes but is no device
\* reading, changes neither lastSeenAt, the liveness state, the event log, the
\* timeline nor the reading snapshot.
C7_UnrecognizedDropped ==
  [][ (/\ last'.op = "message"
       /\ \/ last'.kind \in {"badjson", "null"}
          \/ ~IsTankReading(last'.dev, last'.kind))
        => LivenessUnchanged
    ]_vars

\* C7 as amended: a message that cannot be decoded (JSON.parse throws, or the payload
\* is null), or whose topic has no device id, changes nothing but the message
\* counters; a message that decodes and is no device reading is a liveness signal:
\* it sets lastSeenAt to now, the state to online and the bucket of the hour, and
\* leaves only the reading snapshot alone.
C7_UndecodableDropped ==
  [][ /\ (last'.op = "message" /\ (last'.kind \in {"badjson", "null"} \/ last'.dev = NoDevice))
        => /\ LivenessUnchanged
           /\ messageCount' = messageCount + 1
      /\ \A d \in Devices :
           (MessageFor(d) /\ ~IsTankReading(d, last'.kind))
             => /\ sensorLastSeen'[d] = now
                /\ sensorStatus'[d] = "online"
                /\ timelineFile'[d][getHourBucketKey(now)] = "online"
                /\ readingsFile' = readingsFile
    ]_vars

\* an undecodable message has just been dropped while a device was stale
C7_Witness ==
  /\ last.op = "message"
  /\ last.kind = "badjson"
  /\ \E d \in Devices : sensorStatus[d] = "stale"
  /\ phase = "running"

\* C8: an update whose write failed is not lost: when a handler has appended events
\* and its write of the event log worked, the log on file holds the latest events of
\* all that were appended so far, those of failed writes included; and when its write
\* of the timeline worked, the timeline on file of each device it updated holds every
\* bucket recorded so far, those of failed writes included.
C8_FailedWriteRetained ==
  /\ (last.added # <<>> /\ last.w.events) =>
       eventsFile.events = LastN(history, MAX_EVENT_LOG_SIZE)
  /\ last.w.timeline => \A d \in Updated : timelineFile[d] = recorded[d]

\* C9: whenever a credential exchange has failed, at startup, on a reconnect or on
\* the forced refresh, a later credential exchange is eventually attempted.
C9_AuthRetried ==
  \A b \in {0, 1} : [](lastAuth = "failed" /\ authSeq = b => <>(authSeq # b))

\* C11: a device that reports every five minutes has only online buckets and, in the
\* response of GET /health, an uptime of exactly 100.0 percent, after any number of
\* sweeps; a device that was never heard is unknown, has no bucket, no event and no
\* summary, and in the response a null uptime and no offline event.
C11_AlwaysOnlineAndNeverSeen ==
  /\ \A d \in Devices :
       IF sensorLastSeen[d] # NONE
       THEN /\ sensorStatus[d] = "online"
            /\ DOMAIN timelineFile[d] # {}
            /\ \A k \in DOMAIN timelineFile[d] : timelineFile[d][k] = "online"
       ELSE /\ sensorStatus[d] = "unknown"
            /\ timelineFile[d] = EmptyBuckets
            /\ d \notin DOMAIN eventsFile.sensors
            /\ EventsOf(history, d) = {}
  /\ served # NoResponse =>
       \A d \in TANK_DEVICES :
         IF sensorLastSeen[d] # NONE
         THEN /\ served[d].stats.uptimePercent = 1000
              /\ served[d].stats.onlineBuckets = served[d].stats.totalBuckets
         ELSE /\ served[d].stats.uptimePercent = NONE
              /\ served[d].stats.totalBuckets = 0
              /\ served[d].stats.totalOfflineEvents = 0
              /\ served[d].currentStatus = "unknown"

\* after a day of reports and sweeps, with the first hour pruned, the response shows
\* 100.0 percent for the tank that reports and null for the tank never heard
C11_Witness ==
  /\ last.op = "health"
  /\ now > SevenDaysMs
  /\ 0 \notin DOMAIN timelineFile["tank"]
  /\ served["tank"].stats.totalBuckets >= 2
  /\ served["tank"].stats.uptimePercent = 1000
  /\ served["tank3"].stats.uptimePercent = NONE

\* C12: for a bucket map of total buckets of which online are online, the statistics
\* hold totalBuckets = total, onlineBuckets = online and as uptimePercent the tenth of
\* a percent nearest to online / total, the upper one of two equally near: a value
\* from 0 to 100.0, 100.0 exactly when every bucket is online; and null when there
\* is no bucket.
C12_UptimeStats ==
  served # NoResponse =>
    \A total \in 0..MaxBuckets : \A online \in 0..total :
      timelineFile["tank"] = BucketMap(total, online) =>
        LET stats == served["tank"].stats
            u == stats.uptimePercent
        IN /\ stats.totalBuckets = total
           /\ stats.onlineBuckets = online
           /\ total = 0 => u = NONE
           /\ total > 0 => /\ u \in 0..1000
                           /\ -total < 2 * (u * total - 1000 * online)
                           /\ 2 * (u * total - 1000 * online) <= total
                           /\ u = 1000 <=> online = total

\* one online bucket of sixteen, 6.25 percent, is served as 6.3
C12_Witness ==
  /\ last.op = "health"
  /\ timelineFile["tank"] = BucketMap(16, 1)
  /\ served["tank"].stats.uptimePercent = 63

\* C13: computing the statistics is a pure read: as long as no handler that writes has
\* run, a further call returns what the last call returned, whatever time has passed;
\* and a call leaves the snapshots, the liveness state and the event history alone.
C13_StatsPureRead ==
  /\ [](served # NoResponse =>
          served = HealthResponse(readingsFile, eventsFile, timelineFile))
  /\ [][last'.op = "health" =>
          UNCHANGED <<timelineFile, eventsFile, readingsFile, sensorStatus,
                      sensorLastSeen, history, recorded>>]_vars

\* a response is held while the clock has passed the age at which the oldest bucket
\* of the timeline is due for pruning, and the tank has a recorded outage
C13_Witness ==
  /\ served # NoResponse
  /\ last.op = "tick"
  /\ \E k \in DOMAIN timelineFile["tank"] : k < now - SevenDaysMs
  /\ served["tank"].stats.longestOutageMs > 0

\* C14 as stated: every event ever appended has a type among online, offline, stale,
\* startup and system, and a null deviceId only when it is a system event.
C14_EventTypes ==
  \A i \in 1..Len(history) :
    /\ history[i].type \in {"online", "offline", "stale", "startup", "system"}
    /\ history[i].deviceId = NullId => history[i].type = "system"

\* C14 as amended: every event ever appended has a type among online, offline, stale,
\* startup, system and hub_offline, and a null deviceId exactly when it is a system
\* event.
C14_EventTypesWithHub ==
  \A i \in 1..Len(history) :
    /\ history[i].type \in {"online", "offline", "stale", "startup", "system",
                             "hub_offline"}
    /\ history[i].deviceId = NullId <=> history[i].type = "system"

\* a hub has reported offline after an earlier message: the two events of the devices
\* and the system event are in the history
C14_Witness ==
  /\ last.op = "message"
  /\ last.kind = "hubdown"
  /\ \E i \in 1..Len(history) : history[i].type = "hub_offline"
  /\ \E i \in 1..Len(history) : history[i].type = "system"
  /\ \E i \in 1..Len(history) : history[i].type = "startup"
  /\ messageCount = 2

\* C15: a shutdown signal that reaches a started monitor, whichever of the two,
\* appends a system event, cancels the timers and closes the transport; after it no
\* sweep, no forced refresh and no message handling occurs.
C15_ShutdownCleanup ==
  [][ /\ last'.op = "shutdown" =>
           /\ last'.added = <<[timestamp |-> now, type |-> "system", deviceId |-> NullId,
                               offlineDurationMs |-> NONE]>>
           /\ eventsFile'.events = LastN(history', MAX_EVENT_LOG_SIZE)
           /\ phase' = "stopped"
           /\ conn' = "closed"
      /\ phase \in {"stopped", "killed"} => last'.op \notin {"sweep", "message", "session"}
    ]_vars

\* the token the endpoint has issued last
LatestToken == 1 + ((issued + TokenNames - 1) % TokenNames)

\* C16 as stated: every firing of the forced refresh, once its credential exchange
\* has ended, results in the disconnect that precedes the reconnect, with a fresh
\* credential installed.
C16_EveryRefreshCycles ==
  [][ (last'.op = "session" /\ last'.kind \in {"refresh token", "refresh failed"})
        => /\ conn' = "ending"
           /\ username' = FreshToken
    ]_vars

\* C16 as amended: every firing of the forced refresh whose credential exchange
\* succeeds installs the fresh credential and disconnects, whatever the state of the
\* connection, and the disconnect is followed by a connect call that sends the
\* credential obtained last; a firing whose exchange fails leaves the connection and
\* the credential as they are.
C16_RefreshCycle ==
  /\ [][ /\ (last'.op = "session" /\ last'.kind = "refresh token")
             => /\ conn' = "ending"
                /\ username' = FreshToken
                /\ accessToken' = FreshToken
         /\ (last'.op = "session" /\ last'.kind = "refresh failed")
             => UNCHANGED <<conn, username, sent>>
         /\ (conn = "ending" /\ conn' # "ending")
             => /\ conn' = "connecting"
                /\ sent' = LatestToken
       ]_vars
  /\ (conn = "ending" ~> conn = "connecting")

\* the refresh has fired on a subscribed session, the second token was obtained, the
\* connection was ended and the connect call has sent the second token
C16_Witness ==
  /\ last.op = "session"
  /\ last.kind = "ended"
  /\ conn = "connecting"
  /\ issued = 2
  /\ sent = 2
  /\ lastAuth = "ok"

\* C17: when the connect call of an automatic reconnect attempt is issued, the
\* credential exchange of that attempt is over and the credential the call sends is
\* the one obtained last, not the one the previous attempt sent.
C17_FreshCredentialBeforeConnect ==
  [][ (last'.op = "session" /\ last'.kind = "reconnect")
        => /\ "reconnect" \notin pending'
           /\ sent' = LatestToken'
           /\ sent' # sent
    ]_vars

\* C18: every accepted connect or reconnect issues the subscribe, and the session
\* is subscribed only through the callback of the subscribe issued on the connection
\* it is on; a closed or ended connection leaves no subscription behind.
C18_SubscribeOnEveryConnect ==
  [][ /\ (last'.op = "session" /\ last'.kind = "connect")
          => /\ conn = "connecting"
             /\ conn' = "subscribing"
      /\ (conn' = "subscribed" /\ conn # "subscribed")
          => /\ conn = "subscribing"
             /\ last'.kind = "subscribed"
      /\ (conn' = "subscribing" /\ conn # "subscribing")
          => /\ conn = "connecting"
             /\ last'.kind = "connect"
    ]_vars

\* the session is subscribed again on a connection made by a reconnect that sent the
\* second token
C18_Witness ==
  /\ last.op = "session"
  /\ last.kind = "subscribed"
  /\ conn = "subscribed"
  /\ sent = 2

\* C19: a transport failure, the error of a subscribe included, takes the session
\* out of the connected states into reconnecting (waiting for the reconnect timer or
\* connecting), and appends no event to the event log.
C19_FailureReconnects ==
  [][ (last'.op = "session" /\ last'.kind \in {"close", "subscribe error"})
        => /\ conn' \in {"waiting", "connecting"}
           /\ history' = history
           /\ eventsFile' = eventsFile
    ]_vars

\* the positions in the history of the events of one type of one device
TypedEventsOf(deviceId, type) ==
  {i \in EventsOf(history, deviceId) : history[i].type = type}

\* C20: a device has a SensorSummary exactly from its first event on; the summary's
\* firstSeen is the time of that first event and never changes, its totals are the
\* numbers of offline and of stale events ever logged for the device, trimmed out of
\* the event list or not, and no step removes a summary or lowers a total.
C20_SummaryLifecycle ==
  /\ [](\A d \in Devices \cup {NullId} :
          /\ d \in DOMAIN eventsFile.sensors <=> (d # NullId /\ EventsOf(history, d) # {})
          /\ d \in DOMAIN eventsFile.sensors =>
               LET sensor == eventsFile.sensors[d]
                   first == CHOOSE i \in EventsOf(history, d) :
                              \A j \in EventsOf(history, d) : i <= j
               IN /\ sensor.firstSeen = history[first].timestamp
                  /\ sensor.totalOfflineEvents = Cardinality(TypedEventsOf(d, "offline"))
                  /\ sensor.totalStaleEvents = Cardinality(TypedEventsOf(d, "stale")))
  /\ [][\A d \in DOMAIN eventsFile.sensors :
          /\ d \in DOMAIN eventsFile'.sensors
          /\ eventsFile'.sensors[d].firstSeen = eventsFile.sensors[d].firstSeen
          /\ eventsFile'.sensors[d].totalOfflineEvents >= eventsFile.sensors[d].totalOfflineEvents
          /\ eventsFile'.sensors[d].totalStaleEvents >= eventsFile.sensors[d].totalStaleEvents
       ]_vars

\* a device with an offline and a stale event counted whose first event has been
\* trimmed out of the event list
C20_Witness ==
  \E d \in DOMAIN eventsFile.sensors :
    /\ eventsFile.sensors[d].totalOfflineEvents >= 1
    /\ eventsFile.sensors[d].totalStaleEvents >= 1
    /\ \A i \in EventsOf(eventsFile.events, d) :
         eventsFile.events[i].timestamp > eventsFile.sensors[d].firstSeen

\* C10: every entry of the reading snapshot carries the liveness state the monitor
\* holds for its device, and a statusChangedAt.
C10_ReadingStatusInSync ==
  \A d \in DOMAIN readingsFile :
    /\ readingsFile[d].status = sensorStatus[d]
    /\ readingsFile[d].statusChangedAt # NONE

\* the positions in the events a step appended of the events of one type
AddedOfType(type) == {i \in 1..Len(last'.added) : last'.added[i].type = type}

\* C21: a message for a device that is stale or offline sets its lastSeenAt to now
\* and its state to online, and appends exactly one online event for the device,
\* which records the state the device was in, and no startup event.
C21_RecoveryOnMessage ==
  [][ \A d \in Devices :
        (MessageFor(d) /\ sensorStatus[d] \in {"stale", "offline"})
          => /\ sensorLastSeen'[d] = now
             /\ sensorStatus'[d] = "online"
             /\ Cardinality(AddedOfType("online")) = 1
             /\ AddedOfType("startup") = {}
             /\ last'.added[1].type = "online"
             /\ last'.added[1].deviceId = d
             /\ last'.added[1].timestamp = now
             /\ last'.added[1].previousState = sensorStatus[d]
             /\ history' = history \o last'.added
             /\ eventsFile'.events = LastN(history', MAX_EVENT_LOG_SIZE)
    ]_vars

\* a hub that the sweep had put offline reports itself offline: the message appends
\* the online event of the device and then the hub_offline event
C21_Witness ==
  /\ last.op = "message"
  /\ last.dev = "hub"
  /\ last.prev["hub"] = "offline"
  /\ sensorStatus["hub"] = "online"
  /\ Len(last.added) = 2
  /\ last.added[1].previousState = "offline"

StateEventTypes == {"online", "startup", "stale", "offline"}

\* C22: the first message of a device appends exactly one startup event and no
\* online event and puts the device online; a message for a device that is online
\* appends no state event, advances lastSeenAt to now and, when it carries a reading,
\* records the reading.
C22_FirstAndRepeatedMessage ==
  [][ \A d \in Devices :
        /\ (MessageFor(d) /\ sensorLastSeen[d] = NONE)
             => /\ Cardinality(AddedOfType("startup")) = 1
                /\ AddedOfType("online") = {}
                /\ last'.added[1] = [timestamp |-> now, type |-> "startup",
                                     deviceId |-> d, offlineDurationMs |-> NONE]
                /\ sensorStatus'[d] = "online"
                /\ sensorLastSeen'[d] = now
        /\ (MessageFor(d) /\ sensorStatus[d] = "online")
             => /\ \A i \in 1..Len(last'.added) :
                     last'.added[i].type \notin StateEventTypes
                /\ sensorStatus'[d] = "online"
                /\ sensorLastSeen'[d] = now
                /\ IsTankReading(d, last'.kind)
                     => /\ d \in DOMAIN readingsFile'
                        /\ readingsFile'[d] = NewReading(now)
        /\ MessageFor(d) => history' = history \o last'.added
    ]_vars

\* a tank that is online reports again, later: no event, a new reading
C22_Witness ==
  /\ last.op = "message"
  /\ last.dev = "tank"
  /\ last.prev["tank"] = "online"
  /\ last.added = <<>>
  /\ now > 0
  /\ sensorLastSeen["tank"] = now
  /\ readingsFile["tank"].timestamp = now
  /\ Len(history) = 2

\* the positions in the events a step appended of the events of one device
AddedFor(deviceId) == {i \in 1..Len(last'.added) : last'.added[i].deviceId = deviceId}

\* C23: a sweep appends a stale event for a device exactly when the device is online
\* and its silence is above the stale and not above the offline threshold, and an
\* offline event exactly when its silence is above the offline threshold and the
\* device is not offline; a sweep of a device that is offline, or stale with a
\* silence not above the offline threshold, leaves its state and its summary as they
\* are and appends no event for it.
C23_SweepEdges ==
  [][ last'.op = "sweep" =>
        /\ history' = history \o last'.added
        /\ \A d \in Devices :
             LET seen == sensorLastSeen[d] # NONE
                 silence == now - sensorLastSeen[d]
             IN /\ (AddedFor(d) \cap AddedOfType("stale") # {})
                      <=> /\ seen
                          /\ sensorStatus[d] = "online"
                          /\ silence > STALE_THRESHOLD_MS
                          /\ silence <= OFFLINE_THRESHOLD_MS
                /\ (AddedFor(d) \cap AddedOfType("offline") # {})
                      <=> /\ seen
                          /\ sensorStatus[d] # "offline"
                          /\ silence > OFFLINE_THRESHOLD_MS
                /\ Cardinality(AddedFor(d)) <= 1
                /\ (\/ sensorStatus[d] = "offline"
                    \/ sensorStatus[d] = "stale" /\ silence <= OFFLINE_THRESHOLD_MS)
                      => /\ sensorStatus'[d] = sensorStatus[d]
                         /\ AddedFor(d) = {}
                         /\ eventsFile'.sensors[d] = eventsFile.sensors[d]
    ]_vars

\* the third sweep that finds the tank offline: the log still has the one stale and
\* the one offline event
C23_Witness ==
  /\ last.op = "sweep"
  /\ last.prev["tank"] = "offline"
  /\ sensorStatus["tank"] = "offline"
  /\ now - OfflineSince("tank") >= 3 * OFFLINE_CHECK_INTERVAL_MS
  /\ eventsFile.sensors["tank"].totalOfflineEvents = 1
  /\ eventsFile.sensors["tank"].totalStaleEvents = 1
  /\ Len(history) = 4

\* the buckets of a device after a write of status at time now: the bucket of the
\* hour of now holds status, every other bucket is one the device had, unchanged, and
\* only buckets older than the retention window are gone
BucketWritten(d, status) ==
  LET old == timelineFile[d]
      new == timelineFile'[d]
      bucketKey == getHourBucketKey(now)
  IN /\ bucketKey \in DOMAIN new
     /\ new[bucketKey] = status
     /\ \A k \in DOMAIN new \ {bucketKey} : k \in DOMAIN old /\ new[k] = old[k]
     /\ \A k \in DOMAIN old \ DOMAIN new : k < now - SevenDaysMs

\* C24 as stated: a sweep that finds no transition for a device leaves the timeline
\* buckets of that device unchanged.
C24_WrittenOnTransitionOnly ==
  [][ \A d \in Devices :
        (last'.op = "sweep" /\ sensorStatus'[d] = sensorStatus[d])
          => timelineFile'[d] = timelineFile[d]
    ]_vars

\* C24 as amended: a message writes the bucket of the current hour of its device
\* with online; a sweep writes the bucket of the current hour of every device seen
\* since the start with the state the device has after the sweep, transitioned or
\* not; nothing else writes a bucket, and the buckets of a device never seen, or of
\* a device other than the one of the message, stay as they are.
C24_TimelineWrites ==
  [][ \A d \in Devices :
        /\ MessageFor(d) => BucketWritten(d, "online")
        /\ (last'.op = "message" /\ last'.dev # d)
             => timelineFile'[d] = timelineFile[d]
        /\ (last'.op = "sweep" /\ sensorLastSeen[d] # NONE)
             => BucketWritten(d, sensorStatus'[d])
        /\ (last'.op = "sweep" /\ sensorLastSeen[d] = NONE)
             => timelineFile'[d] = timelineFile[d]
        /\ last'.op \notin {"sweep", "message"} => timelineFile'[d] = timelineFile[d]
    ]_vars

\* a sweep that found the tank stale and left it stale has written stale into the
\* bucket of a new hour
C24_Witness ==
  /\ last.op = "sweep"
  /\ last.prev["tank"] = "stale"
  /\ sensorStatus["tank"] = "stale"
  /\ now = getHourBucketKey(now)
  /\ timelineFile["tank"][now] = "stale"
  /\ timelineFile["tank"][now - HourMs] = "stale"
  /\ last.added = <<>>

\* the state a silence stands for
DerivedStatus(silence) ==
  IF silence > OFFLINE_THRESHOLD_MS THEN "offline"
  ELSE IF silence > STALE_THRESHOLD_MS THEN "stale"
  ELSE "online"

\* how far down a state is
Severity(status) ==
  CASE status = "offline" -> 2 [] status = "stale" -> 1 [] OTHER -> 0

Seen == {d \in Devices : sensorLastSeen[d] # NONE}

\* C25 as stated: right after a sweep and right after a message that was handled,
\* every device with a known lastSeenAt has the state derived from its silence.
C25_DerivedAfterEveryCheck ==
  (last.op = "sweep" \/ (last.op = "message" /\ last.dev # NoDevice))
    => \A d \in Seen : sensorStatus[d] = DerivedStatus(now - sensorLastSeen[d])

\* C25 as amended: right after a sweep every device with a known lastSeenAt has the
\* state derived from its silence with the thresholds compared strictly; right after
\* a message its own device has, and is online; at any time the state of a device is
\* the derived one or lags it, and a device never heard from has no state.
C25_DerivedState ==
  /\ last.op = "sweep"
       => \A d \in Seen : sensorStatus[d] = DerivedStatus(now - sensorLastSeen[d])
  /\ (last.op = "message" /\ last.dev # NoDevice)
       => /\ last.dev \in Seen
          /\ sensorLastSeen[last.dev] = now
          /\ sensorStatus[last.dev] = "online"
          /\ sensorStatus[last.dev] = DerivedStatus(now - sensorLastSeen[last.dev])
          /\ \A d \in Devices \ {last.dev} : sensorStatus[d] = last.prev[d]
  /\ \A d \in Seen :
       /\ sensorStatus[d] \in {"online", "stale", "offline"}
       /\ Severity(sensorStatus[d]) <= Severity(DerivedStatus(now - sensorLastSeen[d]))
  /\ \A d \in Devices \ Seen : sensorStatus[d] = "unknown"

\* a sweep at a silence of exactly the offline threshold has made the tank stale,
\* not offline
C25_Witness ==
  /\ last.op = "sweep"
  /\ "tank" \in Seen
  /\ now - sensorLastSeen["tank"] = OFFLINE_THRESHOLD_MS
  /\ last.prev["tank"] = "online"
  /\ sensorStatus["tank"] = "stale"

C27_HandlersSerialized ==
  /\ [](/\ eventsFile.events = LastN(history, MAX_EVENT_LOG_SIZE)
        /\ timelineFile = recorded
        /\ \A d \in DOMAIN eventsFile.sensors :
             eventsFile.sensors[d].totalOfflineEvents
               + eventsFile.sensors[d].totalStaleEvents
               = Cardinality(TypedEventsOf(d, "offline") \cup TypedEventsOf(d, "stale")))
  /\ [][ /\ last'.op = "message"
             => /\ nextSweepAt' = nextSweepAt
                /\ history' = history \o last'.added
                /\ \A i \in 1..Len(last'.added) : last'.added[i].deviceId = last'.dev
                /\ \A d \in Devices \ {last'.dev} :
                     /\ sensorStatus'[d] = sensorStatus[d]
                     /\ sensorLastSeen'[d] = sensorLastSeen[d]
                     /\ timelineFile'[d] = timelineFile[d]
         /\ last'.op = "sweep"
             => /\ sensorLastSeen' = sensorLastSeen
                /\ messageCount' = messageCount
                /\ history' = history \o last'.added
                /\ \A d \in Devices :
                     Cardinality(AddedFor(d)) = IF sensorStatus'[d] # sensorStatus[d]
                                                THEN 1 ELSE 0
       ]_vars

\* a message and a due sweep at the same instant: the message was handled and logged
\* its event, then the sweep ran and logged its own, and the log holds both in order
C27_Witness ==
  /\ last.op = "sweep"
  /\ lastMessageAt = now
  /\ Len(last.added) = 1
  /\ Len(history) > MAX_EVENT_LOG_SIZE
  /\ history[Len(history) - 1].timestamp = now
  /\ history[Len(history) - 1].type \in {"startup", "online"}
  /\ history[Len(history) - 1].deviceId # history[Len(history)].deviceId
  /\ eventsFile.events = LastN(history, MAX_EVENT_LOG_SIZE)

\* C28: the currentStatus of the summary of a device is the liveness state the
\* monitor holds for it, once that is online, stale or offline, and the response of
\* GET /health does not show unknown or offline for a tank that is online.
C28_SummaryStatusInSync ==
  /\ \A d \in DOMAIN eventsFile.sensors :
       sensorStatus[d] \in {"online", "stale", "offline"}
         => eventsFile.sensors[d].currentStatus = sensorStatus[d]
  /\ served # NoResponse =>
       \A d \in TANK_DEVICES :
         sensorStatus[d] = "online"
           => served[d].currentStatus \notin {"unknown", "offline"}

\* the positions strictly between i and j in the history of the events of deviceId
\* with a type in types
Between(i, j, deviceId, types) ==
  {k \in (i + 1)..(j - 1) : history[k].deviceId = deviceId /\ history[k].type \in types}

\* C29: in the events of one run, for every device, an online event lies between any
\* two offline events and between any two stale events, and every online event has a
\* stale or offline event before it with no online or startup event in between.
C29_EventsAlternate ==
  \A d \in Devices :
    /\ \A type \in {"offline", "stale"} :
         \A i, j \in TypedEventsOf(d, type) :
           i < j => Between(i, j, d, {"online"}) # {}
    /\ \A j \in TypedEventsOf(d, "online") :
         \E i \in TypedEventsOf(d, "stale") \cup TypedEventsOf(d, "offline") :
           /\ i < j
           /\ Between(i, j, d, {"online", "startup"}) = {}

\* the tank has gone offline, come back, gone stale and offline again
C29_Witness ==
  \E i, j \in TypedEventsOf("tank", "offline") :
    /\ i < j
    /\ Between(i, j, "tank", {"online"}) # {}
    /\ Between(i, j, "tank", {"stale"}) # {}
    /\ sensorStatus["tank"] = "offline"

\* C30: a forced refresh whose credential exchange fails issues no disconnect and
\* leaves the connection, the username installed on the client and the monitor's
\* timers as they are, and the refresh fires again.
C30_FailedRefreshKeepsSession ==
  /\ [][ (last'.op = "session" /\ last'.kind = "refresh failed")
           => /\ conn' = conn
              /\ username' = username
              /\ sent' = sent
              /\ phase' = "running"
              /\ nextSweepAt' = nextSweepAt
              /\ lastAuth' = "failed"
       ]_vars
  /\ ((last.op = "session" /\ last.kind = "refresh failed")
        ~> (last.op = "session" /\ last.kind = "refresh"))

\* the refresh has failed on a subscribed session that still runs with the first
\* token as username
C30_Witness ==
  /\ last.op = "session"
  /\ last.kind = "refresh failed"
  /\ conn = "subscribed"
  /\ username = 1
  /\ sent = 1
  /\ accessToken = NONE

====
